---- MODULE Spec2Model ----
(***************************************************************************)
(* The workflow execution engine of flow-builder: the flow endpoint of     *)
(* server/src/index.ts (POST /api/execute-flow), the flow POST of          *)
(* app/api/execute/route.ts and the caller-side executeFlow of             *)
(* src/execution/executeFlow.ts, over the shared Liveblocks document       *)
(* (nodes, edges, executionHistory).                                       *)
(***************************************************************************)
EXTENDS Integers, Sequences, FiniteSets, TLC

VARIABLES
  nodes,             \* shared document: node id -> node data
  edges,             \* shared document: ordered edge list
  executionHistory,  \* shared document: ordered list of ExecutionRecord
  coord,             \* which coordinator serves the request
  req,               \* the request: room, startNodeId
  env,               \* the environment: can the store fail, is a browser in
                     \* the room
  phase,             \* position of the request handler
  response,          \* what the handler answered
  run,               \* the handler's locals: results, hasError, counters
  stack,             \* the recursion of executeNodeAndChildren
  faults,            \* store calls that failed so far
  parked,            \* the other request in the room, while this one runs
  now                \* the clock: Date.now()

vars == <<nodes, edges, executionHistory, coord, req, env, phase, response, run,
          stack, faults, parked, now>>

----------------------------------------------------------------------------
(* Bounds of the model *)

\* longest edge list of the enumerated documents (larger documents are
\* listed one by one in Shapes)
MaxEdges == 2
\* how many store calls (mutations, snapshot reads) may fail in one run
MaxFaults == 1

(* Program constants *)
MAX_EXECUTIONS_PER_NODE == 10
MAX_TOTAL_EXECUTIONS == 100
maxWaitTime == 60000
pollInterval == 500
HistoryCap == 50

----------------------------------------------------------------------------
(* JavaScript values.  Every value is a record of the same shape so that   *)
(* values of different JavaScript types can be compared.                   *)

JV(t, n, s) == [t |-> t, n |-> n, s |-> s]
Undef == JV("undefined", 0, "")
Null == JV("null", 0, "")
Num(k) == JV("number", k, "")
Str(x) == JV("string", 0, x)
Bool(b) == JV("boolean", IF b THEN 1 ELSE 0, "")
NaNv == JV("NaN", 0, "")
Funcv == JV("function", 0, "")
True == Bool(TRUE)
False == Bool(FALSE)

\* JavaScript truthiness: if (v), !v
Truthy(v) ==
  CASE v.t = "undefined" -> FALSE
    [] v.t = "null" -> FALSE
    [] v.t = "NaN" -> FALSE
    [] v.t = "boolean" -> v.n = 1
    [] v.t = "number" -> v.n # 0
    [] v.t = "string" -> v.s # ""
    [] OTHER -> TRUE

\* A thrown value: an Error object with a message, or any other value
ErrorObj(msg) == [isError |-> TRUE, message |-> msg, value |-> Undef]
Thrown(v) == [isError |-> FALSE, message |-> "", value |-> v]

\* String(e) of a thrown non-Error value
StringOf(v) ==
  CASE v.t = "string" -> v.s
    [] v.t = "undefined" -> "undefined"
    [] v.t = "null" -> "null"
    [] v.t = "NaN" -> "NaN"
    [] v.t = "boolean" -> IF v.n = 1 THEN "true" ELSE "false"
    [] OTHER -> "[value]"

\* e instanceof Error ? e.message : String(e)
ErrorMessage(e) == IF e.isError THEN e.message ELSE StringOf(e.value)

Returned(v) == [ok |-> TRUE, value |-> v, thrown |-> Thrown(Undef)]
Threw(e) == [ok |-> FALSE, value |-> Undef, thrown |-> e]

\* JSON.parse(JSON.stringify(v)) for a defined v: NaN becomes null, a
\* function stringifies to undefined, which JSON.parse rejects.
JsonRoundTrip(v) ==
  CASE v.t = "NaN" -> Returned(Null)
    [] v.t = "function" ->
         Threw(ErrorObj("\"undefined\" is not valid JSON"))
    [] OTHER -> Returned(v)

----------------------------------------------------------------------------
(* Node scripts.  A script is named by what its source text does.          *)

Codes == {"inc", "null", "undef", "throw", "throwEmpty", "throwStr",
          "nan", "func", "first"}

\*  inc:        return (typeof input === "number" ? input : 0) + 1
\*  null:       return null
\*  undef:      (no return statement)
\*  throw:      throw new Error("boom")
\*  throwEmpty: throw new Error("")
\*  throwStr:   throw "oops"
\*  nan:        return NaN
\*  func:       return () => 1
\*  first:      if (input === undefined) return 1
executeNodeCode(code, input) ==
  CASE code = "inc" ->
         Returned(Num((IF input.t = "number" THEN input.n ELSE 0) + 1))
    [] code = "null" -> Returned(Null)
    [] code = "undef" -> Returned(Undef)
    [] code = "throw" -> Threw(ErrorObj("boom"))
    [] code = "throwEmpty" -> Threw(ErrorObj(""))
    [] code = "throwStr" -> Threw(Thrown(Str("oops")))
    [] code = "nan" -> Returned(NaNv)
    [] code = "first" ->
         Returned(IF input = Undef THEN Num(1) ELSE Undef)
    [] OTHER -> Returned(Funcv)

----------------------------------------------------------------------------
(* The shared document *)

\* node ids of the enumerated documents; Dangling is an id no node has
Ids == {"A", "B", "C"}
Dangling == "X"
\* a ring of more nodes than the global cap allows visits at the per-node cap
RingSeq == <<"R0", "R1", "R2", "R3", "R4", "R5", "R6", "R7", "R8", "R9", "R10">>
RingIds == {RingSeq[i] : i \in 1..Len(RingSeq)}
AllIds == Ids \cup RingIds \cup {Dangling}

Edge(s, t) == [source |-> s, target |-> t]

\* LiveNodeData; an absent optional field reads as undefined
NodeData(label, code, mode) ==
  [label |-> label, code |-> code, executionMode |-> mode,
   lastResult |-> Undef, isExecuting |-> Undef, error |-> Undef,
   pendingClientExecution |-> Undef, clientInput |-> Undef]

Has(u, k) == k \in DOMAIN u

\* the merge of updateNodeInStorage: updates is Partial<LiveNodeData>
UpdatedData(data, updates) ==
  [data EXCEPT
     !.isExecuting =
        IF Has(updates, "isExecuting") /\ updates.isExecuting # Undef
        THEN updates.isExecuting ELSE @,
     !.lastResult =
        IF Has(updates, "lastResult") /\ updates.lastResult # Undef
        THEN updates.lastResult ELSE @,
     !.error =
        IF Has(updates, "error") /\ updates.error # Undef
        THEN updates.error
        ELSE IF Has(updates, "error") THEN Undef ELSE @,
     !.pendingClientExecution =
        IF Has(updates, "pendingClientExecution")
           /\ updates.pendingClientExecution # Undef
        THEN updates.pendingClientExecution ELSE @,
     !.clientInput =
        IF Has(updates, "clientInput") /\ updates.clientInput # Undef
        THEN updates.clientInput
        ELSE IF Has(updates, "clientInput") THEN Undef ELSE @]

\* (mutation) the update of a node that is gone creates it again
updateNodeInStorageUpsert(nodeId, updates) ==
  IF nodeId \in DOMAIN nodes
  THEN [nodes EXCEPT ![nodeId] = UpdatedData(@, updates)]
  ELSE (nodeId :> UpdatedData(NodeData(nodeId, "", "undefined"), updates))
       @@ nodes

\* the document's node map after the mutation of updateNodeInStorage
updateNodeInStorage(nodeId, updates) ==
  IF nodeId \in DOMAIN nodes
  THEN [nodes EXCEPT ![nodeId] = UpdatedData(@, updates)]
  ELSE nodes

\* (mutation) the trimming deletes the first entry instead of the last
addExecutionRecordDropHead(history, record) ==
  LET inserted == <<record>> \o history
  IN IF Len(inserted) > HistoryCap
     THEN SubSeq(inserted, Len(inserted) - HistoryCap + 1, Len(inserted))
     ELSE inserted

\* history.insert(record, 0); while (history.length > 50) delete the last
addExecutionRecord(history, record) ==
  LET inserted == <<record>> \o history
  IN IF Len(inserted) > HistoryCap
     THEN SubSeq(inserted, 1, HistoryCap)
     ELSE inserted

\* { ...record, ...updates }
Merged(record, updates) ==
  [k \in DOMAIN record \cup DOMAIN updates |->
     IF k \in DOMAIN updates THEN updates[k] ELSE record[k]]

\* the first record with that id is replaced by the merge; none: no change
updateExecutionRecord(history, recordId, updates) ==
  LET hits == {i \in 1..Len(history) : history[i].id = recordId}
  IN IF hits = {}
     THEN history
     ELSE LET i == CHOOSE j \in hits : \A k \in hits : j <= k
          IN [history EXCEPT ![i] = Merged(@, updates)]

\* (mutation) only the first edge that leaves the node is followed
childrenOfFirstOnly(nodeId, es) ==
  LET hits == {i \in 1..Len(es) : es[i].source = nodeId}
  IN IF hits = {}
     THEN <<>>
     ELSE <<es[CHOOSE i \in hits : \A j \in hits : i <= j].target>>

\* edges.filter(e => e.source === nodeId).map(e => e.target)
RECURSIVE childrenOf(_, _)
childrenOf(nodeId, es) ==
  IF es = <<>>
  THEN <<>>
  ELSE (IF Head(es).source = nodeId THEN <<Head(es).target>> ELSE <<>>)
       \o childrenOf(nodeId, Tail(es))

----------------------------------------------------------------------------
(* The request handler and the recursion of executeNodeAndChildren *)

TimeoutMessage ==
  "Client execution timeout - no browser connected or execution took too long"

NoNode == NodeData("", "", "undefined")
EmptyResult == [result |-> Undef, error |-> Undef]

\* one activation of executeNodeAndChildren(nodeId, input)
Frame(nodeId, input) ==
  [nodeId |-> nodeId, input |-> input, pc |-> "enter",
   node |-> NoNode, snapEdges |-> <<>>, nodeResult |-> EmptyResult,
   waitedTime |-> 0, clientCompleted |-> FALSE,
   children |-> <<>>, idx |-> 1]

Top == stack[Len(stack)]
Walking == phase = "walk" /\ stack # <<>>
At(pc) == Walking /\ Top.pc = pc
SetTop(f) == [stack EXCEPT ![Len(stack)] = f]
Pop == SubSeq(stack, 1, Len(stack) - 1)

NoResponse == [status |-> "none", success |-> FALSE, nodesExecuted |-> 0,
               results |-> <<>>]
ErrorResponse(code) == [NoResponse EXCEPT !.status = code]

NoRun == [executionId |-> "", results |-> <<>>, hasError |-> FALSE,
          executionCount |-> [n \in AllIds |-> 0], totalExecutions |-> 0,
          visited |-> {}, argNodes |-> <<>>, argEdges |-> <<>>]

\* the handler's state for one request
Context(p, rs, r, st, rq) ==
  [phase |-> p, response |-> rs, run |-> r, stack |-> st, req |-> rq]
\* no other request
NoContext ==
  Context("none", NoResponse, NoRun, <<>>, [roomId |-> "", startNodeId |-> ""])

\* a call of the store's API succeeds, or fails where the store is unreliable
CallOutcomes ==
  {TRUE} \cup (IF env.unreliable /\ faults < MaxFaults THEN {FALSE} ELSE {})
Count(ok) == faults' = faults + (IF ok THEN 0 ELSE 1)

\* the exception of a failed getStorageData reaches the handler's catch
Abort ==
  /\ phase' = "done"
  /\ stack' = <<>>
  /\ response' = ErrorResponse("500")

\* if (!roomId || !startNodeId) return 400
Validate ==
  /\ phase = "received"
  /\ coord \in {"server", "next"}
  /\ IF req.roomId = "" \/ req.startNodeId = ""
     THEN /\ phase' = "done"
          /\ response' = ErrorResponse("400")
     ELSE /\ phase' = "load"
          /\ UNCHANGED response
  /\ UNCHANGED <<nodes, edges, executionHistory, coord, req, env, run, stack,
                 faults>>
  /\ UNCHANGED <<parked, now>>

\* `exec-${Date.now()}`
ExecId(t) == "exec-" \o ToString(t)

\* storage = await getStorageData(roomId); startNode = nodes.get(startNodeId)
LoadStart ==
  /\ phase = "load"
  /\ \E ok \in CallOutcomes :
       /\ Count(ok)
       /\ IF ~ok \/ req.roomId # "room"
          THEN Abort /\ UNCHANGED run
          ELSE IF req.startNodeId \notin DOMAIN nodes
          THEN /\ phase' = "done"
               /\ response' = ErrorResponse("404")
               /\ UNCHANGED <<stack, run>>
          ELSE /\ phase' = "begin"
               /\ run' = [NoRun EXCEPT !.executionId = ExecId(now)]
               /\ UNCHANGED <<stack, response>>
  /\ UNCHANGED <<nodes, edges, executionHistory, coord, req, env>>
  /\ UNCHANGED <<parked, now>>

\* await addExecutionRecord(roomId, executionRecord)
Begin ==
  /\ phase = "begin"
  /\ \E ok \in CallOutcomes :
       /\ Count(ok)
       /\ executionHistory' =
            IF ok
            THEN addExecutionRecord(executionHistory,
                   [id |-> run.executionId,
                    startNodeId |-> req.startNodeId,
                    startNodeLabel |-> nodes[req.startNodeId].label,
                    status |-> "running",
                    nodesExecuted |-> 0,
                    results |-> <<>>])
            ELSE executionHistory
  /\ phase' = "walk"
  /\ stack' = <<Frame(req.startNodeId, Undef)>>
  /\ UNCHANGED <<nodes, edges, coord, req, env, response, run>>
  /\ UNCHANGED <<parked, now>>

\* (mutation) the global cap is not checked
CapReachedPerNodeOnly(nodeId) ==
  run.executionCount[nodeId] >= MAX_EXECUTIONS_PER_NODE

\* (mutation) the per-node cap lets one more execution through
CapReachedOffByOne(nodeId) ==
  \/ run.totalExecutions >= MAX_TOTAL_EXECUTIONS
  \/ run.executionCount[nodeId] > MAX_EXECUTIONS_PER_NODE

\* the two caps of executeNodeAndChildren
CapReached(nodeId) ==
  \/ run.totalExecutions >= MAX_TOTAL_EXECUTIONS
  \/ run.executionCount[nodeId] >= MAX_EXECUTIONS_PER_NODE

\* cap checks, then executionCount.set(nodeId, n + 1); totalExecutions++
Enter ==
  /\ At("enter")
  /\ IF CapReached(Top.nodeId)
     THEN /\ stack' = Pop
          /\ UNCHANGED run
     ELSE /\ run' = [run EXCEPT
                       !.executionCount[Top.nodeId] = @ + 1,
                       !.totalExecutions = @ + 1]
          /\ stack' = SetTop([Top EXCEPT !.pc = "fetch"])
  /\ UNCHANGED <<nodes, edges, executionHistory, coord, req, env, phase,
                 response, faults>>
  /\ UNCHANGED <<parked, now>>

\* node.data.executionMode || "server"; the Next route runs every node itself
executionModeOf(data) ==
  IF coord = "server" /\ data.executionMode = "client"
  THEN "client"
  ELSE "server"

\* (mutation) a target that is not in the snapshot is reported as an error
FetchMissingIsError ==
  /\ At("fetch")
  /\ \E ok \in CallOutcomes :
       /\ Count(ok)
       /\ IF ~ok
          THEN Abort
          ELSE /\ IF Top.nodeId \notin DOMAIN nodes
                  THEN stack' = SetTop([Top EXCEPT
                                  !.pc = "push",
                                  !.nodeResult =
                                     [result |-> Undef,
                                      error |-> Str("Node not found")]])
                  ELSE stack' = SetTop([Top EXCEPT
                                  !.pc = "mark",
                                  !.node = nodes[Top.nodeId],
                                  !.snapEdges = edges])
               /\ UNCHANGED <<phase, response>>
  /\ UNCHANGED <<nodes, edges, executionHistory, coord, req, env, run>>
  /\ UNCHANGED <<parked, now>>

\* currentStorage = await getStorageData(roomId); if (!node) return
Fetch ==
  /\ At("fetch")
  /\ \E ok \in CallOutcomes :
       /\ Count(ok)
       /\ IF ~ok
          THEN Abort
          ELSE /\ IF Top.nodeId \notin DOMAIN nodes
                  THEN stack' = Pop
                  ELSE stack' = SetTop([Top EXCEPT
                                  !.pc = "mark",
                                  !.node = nodes[Top.nodeId],
                                  !.snapEdges = edges])
               /\ UNCHANGED <<phase, response>>
  /\ UNCHANGED <<nodes, edges, executionHistory, coord, req, env, run>>
  /\ UNCHANGED <<parked, now>>

\* (mutation) the dispatcher never hands the input over
ClientInputAlwaysNull(input) == Null

\* clientInput: input !== undefined ? JSON.parse(JSON.stringify(input)) : null
ClientInput(input) ==
  IF input # Undef THEN JsonRoundTrip(input).value ELSE Null

\* the first updateNodeInStorage of a visit
MarkUpdates(f) ==
  IF executionModeOf(f.node) = "client"
  THEN [isExecuting |-> True, error |-> Undef,
        pendingClientExecution |-> True,
        clientInput |-> ClientInput(f.input)]
  ELSE [isExecuting |-> True, error |-> Undef]

Mark ==
  /\ At("mark")
  /\ \E ok \in CallOutcomes :
       /\ Count(ok)
       /\ nodes' = IF ok
                   THEN updateNodeInStorage(Top.nodeId, MarkUpdates(Top))
                   ELSE nodes
  /\ stack' = SetTop([Top EXCEPT
                !.pc = IF executionModeOf(Top.node) = "client"
                       THEN "poll" ELSE "run"])
  /\ UNCHANGED <<edges, executionHistory, coord, req, env, phase, response,
                 run>>
  /\ UNCHANGED <<parked, now>>

\* try { result = await executeNodeCode(code, input); serialize } catch
ServerResult(code, input) ==
  LET r == executeNodeCode(code, input)
      s == IF r.ok /\ r.value # Undef THEN JsonRoundTrip(r.value) ELSE r
  IN IF s.ok
     THEN [result |-> s.value, error |-> Undef]
     ELSE [result |-> Undef, error |-> Str(ErrorMessage(s.thrown))]

RunCode ==
  /\ At("run")
  /\ stack' = SetTop([Top EXCEPT
                !.pc = "write",
                !.nodeResult = ServerResult(Top.node.code, Top.input)])
  /\ UNCHANGED <<nodes, edges, executionHistory, coord, req, env, phase,
                 response, run, faults>>
  /\ UNCHANGED <<parked, now>>

\* updateNodeInStorage(roomId, nodeId, {isExecuting: false, lastResult, error})
WriteResult ==
  /\ At("write")
  /\ \E ok \in CallOutcomes :
       /\ Count(ok)
       /\ nodes' = IF ok
                   THEN updateNodeInStorage(Top.nodeId,
                          [isExecuting |-> False,
                           lastResult |-> Top.nodeResult.result,
                           error |-> Top.nodeResult.error])
                   ELSE nodes
  /\ stack' = SetTop([Top EXCEPT !.pc = "push"])
  /\ UNCHANGED <<edges, executionHistory, coord, req, env, phase, response,
                 run>>
  /\ UNCHANGED <<parked, now>>

\* (mutation) every wait is counted twice
WaitedTwice(f) == f.waitedTime + 2 * pollInterval

\* (mutation) the loop forgets to count the time it waited
WaitedNotCounted(f) == f.waitedTime

\* waitedTime += pollInterval
Waited(f) == f.waitedTime + pollInterval

\* one iteration of the polling loop: wait, read the document, test the marker
Poll ==
  /\ At("poll")
  /\ \E ok \in CallOutcomes :
       /\ Count(ok)
       /\ IF ~ok
          THEN Abort
          ELSE /\ LET waited == Waited(Top)
                      id == Top.nodeId
                  IN IF id \in DOMAIN nodes
                        /\ ~Truthy(nodes[id].pendingClientExecution)
                     THEN stack' = SetTop([Top EXCEPT
                            !.pc = "push",
                            !.waitedTime = 0,
                            !.clientCompleted = TRUE,
                            !.nodeResult =
                               [result |-> nodes[id].lastResult,
                                error |-> nodes[id].error]])
                     ELSE IF waited < maxWaitTime
                     THEN stack' = SetTop([Top EXCEPT !.waitedTime = waited])
                     ELSE stack' = SetTop([Top EXCEPT
                            !.pc = "timeout",
                            !.waitedTime = 0,
                            !.nodeResult =
                               [result |-> Undef,
                                error |-> Str(TimeoutMessage)]])
               /\ UNCHANGED <<phase, response>>
  /\ UNCHANGED <<nodes, edges, executionHistory, coord, req, env, run>>
  /\ UNCHANGED <<parked, now>>

\* (mutation) the timeout write leaves the pending marker set
TimeoutUpdatesKeepMarker(error) ==
  [isExecuting |-> False, error |-> error]

\* the updates of the dispatcher's timeout write
TimeoutUpdates(error) ==
  [isExecuting |-> False, pendingClientExecution |-> False, error |-> error]

\* if (!clientCompleted): write isExecuting=false, pending=false, error
Timeout ==
  /\ At("timeout")
  /\ \E ok \in CallOutcomes :
       /\ Count(ok)
       /\ nodes' = IF ok
                   THEN updateNodeInStorage(Top.nodeId,
                          TimeoutUpdates(Top.nodeResult.error))
                   ELSE nodes
  /\ stack' = SetTop([Top EXCEPT !.pc = "push"])
  /\ UNCHANGED <<edges, executionHistory, coord, req, env, phase, response,
                 run>>
  /\ UNCHANGED <<parked, now>>

ResultEntry(f) ==
  [nodeId |-> f.nodeId, nodeLabel |-> f.node.label,
   result |-> f.nodeResult.result, error |-> f.nodeResult.error]

\* results.push(...); if (nodeResult.error) { hasError = true; return }
Push ==
  /\ At("push")
  /\ IF Truthy(Top.nodeResult.error)
     THEN /\ run' = [run EXCEPT
                       !.results = Append(@, ResultEntry(Top)),
                       !.hasError = TRUE]
          /\ stack' = Pop
     ELSE /\ run' = [run EXCEPT !.results = Append(@, ResultEntry(Top))]
          /\ stack' = SetTop([Top EXCEPT !.pc = "advance"])
  /\ UNCHANGED <<nodes, edges, executionHistory, coord, req, env, phase,
                 response, faults>>
  /\ UNCHANGED <<parked, now>>

\* the children are visited only for a defined, non-null result
Propagates(result) == result # Undef /\ result # Null

\* (mutation) the children are read from the document as it is after the
\* node's execution
AdvanceFromLiveEdges ==
  /\ At("advance")
  /\ \E ok \in CallOutcomes :
       /\ Count(ok)
       /\ executionHistory' =
            IF ok
            THEN updateExecutionRecord(executionHistory, run.executionId,
                   [nodesExecuted |-> Len(run.results),
                    results |-> run.results])
            ELSE executionHistory
  /\ stack' = SetTop([Top EXCEPT
                !.pc = "children",
                !.children = IF Propagates(Top.nodeResult.result)
                             THEN childrenOf(Top.nodeId, edges)
                             ELSE <<>>,
                !.snapEdges = <<>>])
  /\ UNCHANGED <<nodes, edges, coord, req, env, phase, response, run>>
  /\ UNCHANGED <<parked, now>>

\* await updateExecutionRecord(...); children = snapshot edges of nodeId
Advance ==
  /\ At("advance")
  /\ \E ok \in CallOutcomes :
       /\ Count(ok)
       /\ executionHistory' =
            IF ok
            THEN updateExecutionRecord(executionHistory, run.executionId,
                   [nodesExecuted |-> Len(run.results),
                    results |-> run.results])
            ELSE executionHistory
  /\ stack' = SetTop([Top EXCEPT
                !.pc = "children",
                !.children = IF Propagates(Top.nodeResult.result)
                             THEN childrenOf(Top.nodeId, Top.snapEdges)
                             ELSE <<>>,
                !.snapEdges = <<>>])
  /\ UNCHANGED <<nodes, edges, coord, req, env, phase, response, run>>
  /\ UNCHANGED <<parked, now>>

\* for (const childId of children) await executeNodeAndChildren(childId, result)
Children ==
  /\ At("children")
  /\ IF Top.idx <= Len(Top.children)
     THEN stack' = Append(SetTop([Top EXCEPT !.idx = @ + 1]),
                          Frame(Top.children[Top.idx], Top.nodeResult.result))
     ELSE stack' = Pop
  /\ UNCHANGED <<nodes, edges, executionHistory, coord, req, env, phase,
                 response, run, faults>>
  /\ UNCHANGED <<parked, now>>

\* the final updateExecutionRecord: completedAt, status, nodesExecuted, results
Finalize ==
  /\ phase = "walk"
  /\ stack = <<>>
  /\ coord \in {"server", "next"}
  /\ \E ok \in CallOutcomes :
       /\ Count(ok)
       /\ executionHistory' =
            IF ok
            THEN updateExecutionRecord(executionHistory, run.executionId,
                   [completedAt |-> "set",
                    status |-> IF run.hasError THEN "error" ELSE "success",
                    nodesExecuted |-> Len(run.results),
                    results |-> run.results])
            ELSE executionHistory
  /\ phase' = "respond"
  /\ UNCHANGED <<nodes, edges, coord, req, env, response, run, stack>>
  /\ UNCHANGED <<parked, now>>

\* res.json({success: !hasError, executionId, nodesExecuted, results})
Respond ==
  /\ phase = "respond"
  /\ phase' = "done"
  /\ response' = [status |-> "200", success |-> ~run.hasError,
                  nodesExecuted |-> Len(run.results),
                  results |-> run.results]
  /\ UNCHANGED <<nodes, edges, executionHistory, coord, req, env, run, stack,
                 faults>>
  /\ UNCHANGED <<parked, now>>

----------------------------------------------------------------------------
(* The caller-side executeFlow(startNodeId, nodes, edges, updateNode) *)

\* updateNodeData: data: { ...node.data, ...data }, if the node exists
updateNodeData(nodeId, data) ==
  IF nodeId \in DOMAIN nodes
  THEN [nodes EXCEPT ![nodeId] =
          [k \in DOMAIN @ |-> IF k \in DOMAIN data THEN data[k] ELSE @[k]]]
  ELSE nodes

\* results.map(r => ({...r, result: JSON.parse(JSON.stringify(r.result))}))
SerializedResults(results) ==
  [i \in 1..Len(results) |->
     [results[i] EXCEPT
        !.result = IF @ # Undef THEN JsonRoundTrip(@).value ELSE Undef]]

\* the browser's addExecutionRecord mutation: history.insert(record, 0)
addExecutionRecordMutation(history, record) ==
  <<[record EXCEPT !.results = SerializedResults(@)]>> \o history

\* the browser's updateExecutionRecord mutation: findIndex, then the merge
updateExecutionRecordMutation(history, recordId, updates) ==
  updateExecutionRecord(history, recordId,
    [updates EXCEPT !.results = SerializedResults(@)])

\* handleExecuteFlow: the record is inserted, then executeFlow is called
\* with the caller's copy of the document
CallerStart ==
  /\ phase = "received"
  /\ coord = "caller"
  /\ phase' = "walk"
  /\ run' = [NoRun EXCEPT !.executionId = ExecId(now),
                          !.argNodes = nodes, !.argEdges = edges]
  /\ executionHistory' =
       addExecutionRecordMutation(executionHistory,
         [id |-> ExecId(now),
          startNodeId |-> req.startNodeId,
          startNodeLabel |-> IF req.startNodeId \in DOMAIN nodes
                             THEN nodes[req.startNodeId].label
                             ELSE req.startNodeId,
          status |-> "running",
          nodesExecuted |-> 0,
          results |-> <<>>])
  /\ stack' = <<[Frame(req.startNodeId, Undef) EXCEPT !.pc = "c_enter"]>>
  /\ UNCHANGED <<nodes, edges, coord, req, env, response, faults>>
  /\ UNCHANGED <<parked, now>>

\* if (visited.has(nodeId)) return; visited.add; getNode; mark isExecuting
CallerEnter ==
  /\ At("c_enter")
  /\ IF Top.nodeId \in run.visited
     THEN /\ stack' = Pop
          /\ UNCHANGED <<run, nodes>>
     ELSE /\ run' = [run EXCEPT !.visited = @ \cup {Top.nodeId}]
          /\ IF Top.nodeId \notin DOMAIN run.argNodes
             THEN /\ stack' = Pop
                  /\ UNCHANGED nodes
             ELSE /\ nodes' = updateNodeData(Top.nodeId,
                                [isExecuting |-> True, error |-> Undef])
                  /\ stack' = SetTop([Top EXCEPT
                                !.pc = "c_run",
                                !.node = run.argNodes[Top.nodeId]])
  /\ UNCHANGED <<edges, executionHistory, coord, req, env, phase, response,
                 faults>>
  /\ UNCHANGED <<parked, now>>

\* try { result = await executeNode(code, input); push } catch { push error }
\* then the serialization, outside the try, and the second updateNode
CallerRun ==
  /\ At("c_run")
  /\ LET r == executeNodeCode(Top.node.code, Top.input)
         result == r.value
         error == IF r.ok THEN Undef ELSE Str(ErrorMessage(r.thrown))
         entry == [nodeId |-> Top.nodeId, nodeLabel |-> Top.node.label,
                   result |-> result, error |-> error]
         serialized == IF result # Undef
                       THEN JsonRoundTrip(result)
                       ELSE Returned(Undef)
         pushed == [run EXCEPT !.results = Append(@, entry),
                               !.hasError = @ \/ ~r.ok]
     IN /\ run' = pushed
        /\ IF ~serialized.ok
           THEN \* the exception leaves executeFlow: the promise rejects
                /\ phase' = "done"
                /\ stack' = <<>>
                /\ response' = [NoResponse EXCEPT !.status = "threw"]
                /\ UNCHANGED nodes
           ELSE /\ nodes' = updateNodeData(Top.nodeId,
                              [isExecuting |-> False,
                               lastResult |-> serialized.value,
                               error |-> error])
                /\ stack' = IF Truthy(error)
                            THEN Pop
                            ELSE SetTop([Top EXCEPT
                                   !.pc = "c_children",
                                   !.nodeResult =
                                      [result |-> result, error |-> error],
                                   !.children =
                                      childrenOf(Top.nodeId, run.argEdges)])
                /\ UNCHANGED <<phase, response>>
  /\ UNCHANGED <<edges, executionHistory, coord, req, env, faults>>
  /\ UNCHANGED <<parked, now>>

\* for (const childId of children) await executeNodeAndChildren(childId, result)
CallerChildren ==
  /\ At("c_children")
  /\ IF Top.idx <= Len(Top.children)
     THEN stack' = Append(SetTop([Top EXCEPT !.idx = @ + 1]),
                          [Frame(Top.children[Top.idx],
                                 Top.nodeResult.result)
                             EXCEPT !.pc = "c_enter"])
     ELSE stack' = Pop
  /\ UNCHANGED <<nodes, edges, executionHistory, coord, req, env, phase,
                 response, run, faults>>
  /\ UNCHANGED <<parked, now>>

\* return { success: !hasError, results }; handleExecuteFlow then writes
\* the final state of the record
CallerReturn ==
  /\ phase = "walk"
  /\ stack = <<>>
  /\ coord = "caller"
  /\ phase' = "done"
  /\ response' = [status |-> "returned", success |-> ~run.hasError,
                  nodesExecuted |-> Len(run.results),
                  results |-> run.results]
  /\ executionHistory' =
       updateExecutionRecordMutation(executionHistory, run.executionId,
         [completedAt |-> "set",
          status |-> IF run.hasError THEN "error" ELSE "success",
          nodesExecuted |-> Len(run.results),
          results |-> run.results])
  /\ UNCHANGED <<nodes, edges, coord, req, env, run, stack, faults>>
  /\ UNCHANGED <<parked, now>>

----------------------------------------------------------------------------
(* The collaborator: a browser that owns the caller's runtime *)

\* sees the pending marker, runs the script on clientInput, writes the
\* outcome back and clears the marker
ClientExecute ==
  /\ env.browser
  /\ \E id \in DOMAIN nodes :
       /\ Truthy(nodes[id].pendingClientExecution)
       /\ LET r == ServerResult(nodes[id].code, nodes[id].clientInput)
          IN nodes' = [nodes EXCEPT ![id] =
                         [@ EXCEPT !.isExecuting = False,
                                   !.lastResult = r.result,
                                   !.error = r.error,
                                   !.pendingClientExecution = False,
                                   !.clientInput = Undef]]
  /\ UNCHANGED <<edges, executionHistory, coord, req, env, phase, response, run,
                 stack, faults>>
  /\ UNCHANGED <<parked, now>>

----------------------------------------------------------------------------
(* Initial states: the documents and requests of the model *)

StartId == "A"

\* the nodes an edge list reaches from the start node in one or more steps
Discovered(es) ==
  {StartId} \cup ({es[i].target : i \in 1..Len(es)} \cap Ids)

\* The second node of Ids is reached before the third: the ids are
\* interchangeable, so the other order adds no behaviour.
Targets(es) ==
  {t \in Ids \cup {Dangling} :
     t = "C" => "B" \in Discovered(es)}

\* Edge lists of at most n edges over Ids, each edge leaving a node that the
\* start node or an earlier edge reaches.  Edges of other sources are never
\* read by a run from StartId, and the relative order of edges of different
\* sources does not matter to childrenOf.
RECURSIVE EdgeLists(_)
EdgeLists(n) ==
  IF n = 0
  THEN {<<>>}
  ELSE LET prev == EdgeLists(n - 1)
           longest == {es \in prev : Len(es) = n - 1}
       IN prev \cup
          UNION {{Append(es, Edge(s, t)) :
                    s \in Discovered(es), t \in Targets(es)} :
                 es \in longest}

\* larger documents: a node reached over two paths, a cycle of three nodes
Diamond == <<Edge("A", "B"), Edge("A", "C"), Edge("B", "C")>>
Cycle3 == <<Edge("A", "B"), Edge("B", "C"), Edge("C", "A")>>
Shapes == {Diamond, Cycle3}

\* the documents run with caller-mode nodes and on an unreliable store
SmallEdgeLists ==
  {<<>>, <<Edge("A", "A")>>, <<Edge("A", "B")>>, <<Edge("A", Dangling)>>}

DefaultCode == "inc"
DefaultMode == "undefined"
DefaultNodes == [id \in Ids |-> NodeData(id, DefaultCode, DefaultMode)]

\* every node runs DefaultCode on the backend, except at most one reached
\* node, which has any script and one of the given execution modes
NodeMaps(es, modes) ==
  {DefaultNodes}
  \cup {[DefaultNodes EXCEPT ![special] = NodeData(special, code, mode)] :
        special \in Discovered(es), code \in Codes, mode \in modes}

RingEdges ==
  [i \in 1..Len(RingSeq) |->
     Edge(RingSeq[i], RingSeq[(i % Len(RingSeq)) + 1])]
RingNodes == [id \in RingIds |-> NodeData(id, DefaultCode, DefaultMode)]

ValidRequest == [roomId |-> "room", startNodeId |-> StartId]
Requests == [roomId : {"room", "", "ghost"},
             startNodeId : {StartId, "", Dangling}]

InitRequest ==
  /\ phase = "received"
  /\ response = NoResponse
  /\ run = NoRun
  /\ stack = <<>>
  /\ faults = 0
  /\ executionHistory = <<>>
  /\ parked = NoContext
  /\ now = 1

\* the server's flow endpoint on a reliable store, backend-mode nodes
InitTraversal ==
  /\ coord = "server"
  /\ env = [unreliable |-> FALSE, browser |-> FALSE]
  /\ edges \in EdgeLists(MaxEdges) \cup Shapes
  /\ nodes \in NodeMaps(edges, {"server"})
  /\ req = ValidRequest

\* the two flow endpoints on small documents with caller-mode nodes, on a
\* store that may fail
InitSmall ==
  /\ coord \in {"server", "next"}
  /\ env \in [unreliable : {TRUE}, browser : BOOLEAN]
  /\ edges \in SmallEdgeLists
  /\ nodes \in NodeMaps(edges, {"undefined", "client"})
  /\ req = ValidRequest

\* a ring on which the global cap trips before any per-node cap
InitRing ==
  /\ coord = "server"
  /\ env = [unreliable |-> FALSE, browser |-> FALSE]
  /\ edges = RingEdges
  /\ nodes = RingNodes
  /\ req = [roomId |-> "room", startNodeId |-> RingSeq[1]]

\* the caller-side executeFlow, which keeps a visited set
InitCaller ==
  /\ coord = "caller"
  /\ env = [unreliable |-> FALSE, browser |-> FALSE]
  /\ edges \in EdgeLists(MaxEdges) \cup Shapes
  /\ nodes \in NodeMaps(edges, {"undefined"})
  /\ req \in [roomId : {"room"}, startNodeId : {StartId, Dangling}]

\* every request, valid or not, on the document without edges
InitRequests ==
  /\ coord \in {"server", "next"}
  /\ env = [unreliable |-> TRUE, browser |-> FALSE]
  /\ edges = <<>>
  /\ nodes = DefaultNodes
  /\ req \in Requests

Init ==
  /\ InitRequest
  /\ \/ InitTraversal
     \/ InitSmall
     \/ InitRing
     \/ InitCaller
     \/ InitRequests

Next ==
  \/ Validate
  \/ LoadStart
  \/ Begin
  \/ Enter
  \/ Fetch
  \/ Mark
  \/ RunCode
  \/ WriteResult
  \/ Poll
  \/ Timeout
  \/ Push
  \/ Advance
  \/ Children
  \/ Finalize
  \/ Respond
  \/ CallerStart
  \/ CallerEnter
  \/ CallerRun
  \/ CallerChildren
  \/ CallerReturn
  \/ ClientExecute

Spec == Init /\ [][Next]_vars

----------------------------------------------------------------------------
(* A room with a past, and two requests in it at the same time *)

\* how far the clock advances while requests arrive
MaxClock == 2

\* the event loop resumes the other request's handler
Switch ==
  /\ parked.phase # "none"
  /\ parked' = Context(phase, response, run, stack, req)
  /\ phase' = parked.phase
  /\ response' = parked.response
  /\ run' = parked.run
  /\ stack' = parked.stack
  /\ req' = parked.req
  /\ UNCHANGED <<nodes, edges, executionHistory, coord, env, faults, now>>

\* a millisecond passes; the clock is read only by a handler that has yet to
\* form its executionId
Tick ==
  /\ now < MaxClock
  /\ \/ phase \in {"received", "load"}
     \/ parked.phase \in {"received", "load"}
  /\ now' = now + 1
  /\ UNCHANGED <<nodes, edges, executionHistory, coord, req, env, phase,
                 response, run, stack, faults, parked>>

\* the record of a run that completed earlier
OldRecord(i) ==
  [id |-> "old-" \o ToString(i),
   startNodeId |-> StartId,
   startNodeLabel |-> StartId,
   status |-> "success",
   completedAt |-> "set",
   nodesExecuted |-> 1,
   results |-> <<[nodeId |-> StartId, nodeLabel |-> StartId,
                  result |-> Num(1), error |-> Undef]>>]
\* the newest first
OldHistory(k) == [i \in 1..k |-> OldRecord(k - i + 1)]

\* the lengths of the history a request finds: below the cap and at the cap
HistoryLengths == {HistoryCap - 1, HistoryCap}

\* the document of the room's runs: no edges; A's script returns a value,
\* B's script throws
RoomNodes(mode) ==
  [DefaultNodes EXCEPT !["A"] = NodeData("A", DefaultCode, mode),
                       !["B"] = NodeData("B", "throw", DefaultMode)]

RoomStart ==
  /\ phase = "received"
  /\ response = NoResponse
  /\ run = NoRun
  /\ stack = <<>>
  /\ faults = 0
  /\ now = 1
  /\ edges = <<>>
  /\ req = ValidRequest

\* two requests arrive at the server's endpoint at about the same time
InitPair ==
  /\ coord = "server"
  /\ env = [unreliable |-> FALSE, browser |-> FALSE]
  /\ nodes \in {RoomNodes(mode) : mode \in {"undefined", "client"}}
  /\ executionHistory = <<>>
  /\ parked \in {Context("received", NoResponse, NoRun, <<>>,
                          [roomId |-> "room", startNodeId |-> start]) :
                  start \in {"A", "B"}}

\* one request in a room whose history is long
InitHistory ==
  /\ coord \in {"server", "next", "caller"}
  /\ env \in [unreliable : {TRUE}, browser : BOOLEAN]
  /\ nodes \in {RoomNodes(mode) : mode \in {"undefined", "client"}}
  /\ executionHistory \in {OldHistory(k) : k \in HistoryLengths}
  /\ parked = NoContext

\* a request arrives while an earlier run is still in its traversal; so many
\* runs began and completed meanwhile that its record is the oldest kept
InitOldest ==
  /\ coord = "server"
  /\ env = [unreliable |-> FALSE, browser |-> FALSE]
  /\ nodes = RoomNodes("undefined")
  /\ executionHistory =
       Append(OldHistory(HistoryCap - 1),
              [id |-> ExecId(0),
               startNodeId |-> StartId,
               startNodeLabel |-> nodes[StartId].label,
               status |-> "running",
               nodesExecuted |-> 0,
               results |-> <<>>])
  /\ parked = Context("walk", NoResponse,
                      [NoRun EXCEPT !.executionId = ExecId(0)],
                      <<Frame(StartId, Undef)>>, ValidRequest)

RoomInit ==
  /\ RoomStart
  /\ \/ InitPair
     \/ InitHistory
     \/ InitOldest

RoomNext ==
  \/ Next
  \/ Switch
  \/ Tick

RoomSpec == RoomInit /\ [][RoomNext]_vars

----------------------------------------------------------------------------
(* A collaborator edits the document while a run is on its way *)

\* the node the collaborator has selected, and the script they save into it
SelectedNodeId == "B"
SavedCode == "throw"

\* deleteNode: nodesMap.delete(nodeId), then every connected edge
deleteNode ==
  /\ SelectedNodeId \in DOMAIN nodes
  /\ nodes' = [id \in DOMAIN nodes \ {SelectedNodeId} |-> nodes[id]]
  /\ edges' = SelectSeq(edges, LAMBDA e : e.source # SelectedNodeId
                                          /\ e.target # SelectedNodeId)
  /\ UNCHANGED <<executionHistory, coord, req, env, phase, response, run,
                 stack, faults, parked, now>>

\* handleSaveCode: updateNodeData(selectedNodeId, { code })
handleSaveCode ==
  /\ SelectedNodeId \in DOMAIN nodes
  /\ nodes[SelectedNodeId].code # SavedCode
  /\ nodes' = updateNodeData(SelectedNodeId, [code |-> SavedCode])
  /\ UNCHANGED <<edges, executionHistory, coord, req, env, phase, response,
                 run, stack, faults, parked, now>>

\* deleteEdge: edgesList.delete(index) of the edge with the given id
deleteEdge ==
  /\ \E index \in 1..Len(edges) :
       edges' = SubSeq(edges, 1, index - 1)
                \o SubSeq(edges, index + 1, Len(edges))
  /\ UNCHANGED <<nodes, executionHistory, coord, req, env, phase, response,
                 run, stack, faults, parked, now>>

\* the documents a collaborator edits: the selected node is a child of the
\* start node, alone, before a sibling, or after a dangling edge
EditEdgeLists ==
  {<<Edge("A", "B")>>,
   <<Edge("A", "B"), Edge("A", "C")>>,
   <<Edge("A", Dangling), Edge("A", "B")>>}

InitEdit ==
  /\ InitRequest
  /\ coord \in {"server", "next", "caller"}
  /\ env \in [unreliable : {FALSE}, browser : BOOLEAN]
  /\ edges \in EditEdgeLists
  /\ nodes \in {[DefaultNodes EXCEPT ![SelectedNodeId] =
                   NodeData(SelectedNodeId, DefaultCode, mode)] :
                mode \in {"undefined", "client"}}
  /\ req = ValidRequest

EditNext ==
  \/ Next
  \/ deleteNode
  \/ handleSaveCode
  \/ deleteEdge

EditSpec == InitEdit /\ [][EditNext]_vars

\* the steps of the engine: the request handler of either endpoint and the
\* caller-side executeFlow.  The browser is not part of it.
EngineNext ==
  \/ Validate
  \/ LoadStart
  \/ Begin
  \/ Enter
  \/ Fetch
  \/ Mark
  \/ RunCode
  \/ WriteResult
  \/ Poll
  \/ Timeout
  \/ Push
  \/ Advance
  \/ Children
  \/ Finalize
  \/ Respond
  \/ CallerStart
  \/ CallerEnter
  \/ CallerRun
  \/ CallerChildren
  \/ CallerReturn

\* the handler runs to completion: every script invocation, timer and store
\* call returns.  Nothing obliges a browser to answer.
LiveSpec == Init /\ [][Next]_vars /\ WF_vars(EngineNext)

----------------------------------------------------------------------------
(* Properties *)

Done == phase = "done"
\* the request was served by one of the two flow endpoints
Endpoint == coord \in {"server", "next"}
\* the endpoint answered with the JSON of a completed run
Answered == Done /\ Endpoint /\ response.status = "200"

\* how many entries of a results list belong to a node
CountOf(id, results) ==
  Cardinality({i \in 1..Len(results) : results[i].nodeId = id})

\* C1: in one run of a flow endpoint, on every document, results never holds
\* more than 100 entries and no node id has more than 10 of them.
C1_CapInvariant ==
  Endpoint =>
    /\ Len(run.results) <= MAX_TOTAL_EXECUTIONS
    /\ \A id \in AllIds :
         CountOf(id, run.results) <= MAX_EXECUTIONS_PER_NODE

\* the global cap turns a call away: 100 entries, and the ring goes on
C1_Witness ==
  /\ Endpoint
  /\ At("enter")
  /\ run.totalExecutions >= MAX_TOTAL_EXECUTIONS
  /\ Len(run.results) = MAX_TOTAL_EXECUTIONS

\* the run's ExecutionRecord in the document has a terminal status
RecordFinal ==
  \E i \in 1..Len(executionHistory) :
    /\ executionHistory[i].id = run.executionId
    /\ executionHistory[i].status \in {"success", "error"}

\* the endpoint's handler got past validation and the start node's lookup
Started == Endpoint /\ run.executionId # ""

\* C2: on every document, cycles included, when every script invocation and
\* store call returns, the run of a flow endpoint eventually ends; when no
\* store call failed, a run that started ends with its JSON answer and its
\* record finalized with status success or error.
C2_Termination ==
  <>(Done /\ (Started /\ faults = 0 => Answered /\ RecordFinal))

\* a run on a cycle ended because a node ran into its cap, and was finalized
C2_Witness ==
  /\ Answered
  /\ RecordFinal
  /\ \E id \in AllIds : run.executionCount[id] = MAX_EXECUTIONS_PER_NODE
  /\ \E i \in 1..Len(edges) : edges[i].target = StartId

\* the run's ExecutionRecord was inserted into the document
RecordCreated ==
  \E i \in 1..Len(executionHistory) :
    executionHistory[i].id = run.executionId

\* C3: once the handler has created the run's ExecutionRecord, the run ends
\* with the JSON answer and the record finalized with status success or
\* error, whatever fails during the traversal.
C3_AlwaysFinalized ==
  Done /\ Endpoint /\ Started /\ RecordCreated =>
    /\ response.status = "200"
    /\ RecordFinal

----------------------------------------------------------------------------
(* The graph of a document *)

Successors(S, es) ==
  {es[i].target : i \in {j \in 1..Len(es) : es[j].source \in S}}

\* the least set that holds S and the successors of its members
RECURSIVE Closure(_, _)
Closure(S, es) ==
  LET T == S \cup Successors(S, es)
  IN IF T = S THEN S ELSE Closure(T, es)

\* the nodes reachable from the start node over directed edges
Reachable == Closure({req.startNodeId}, edges)

\* no reachable node reaches itself
Acyclic ==
  \A n \in Reachable : n \notin Closure(Successors({n}, edges), edges)

\* the number of edge paths that leave node n, the empty path included;
\* duplicate edges count as different paths (defined on acyclic documents)
RECURSIVE PathCount(_, _)
RECURSIVE PathsVia(_, _, _)
PathCount(n, es) == 1 + PathsVia(n, es, 1)
PathsVia(n, es, i) ==
  IF i > Len(es)
  THEN 0
  ELSE (IF es[i].source = n THEN PathCount(es[i].target, es) ELSE 0)
       + PathsVia(n, es, i + 1)

\* a completed run on an acyclic document in which nothing failed: every
\* reachable node exists, every entry holds a defined non-null result and no
\* error, and the counters stayed below the caps
CleanAcyclicRun ==
  /\ Answered
  /\ faults = 0
  /\ Acyclic
  /\ Reachable \subseteq DOMAIN nodes
  /\ \A i \in 1..Len(response.results) :
       /\ response.results[i].error = Undef
       /\ Propagates(response.results[i].result)
  /\ run.totalExecutions < MAX_TOTAL_EXECUTIONS
  /\ \A id \in AllIds : run.executionCount[id] < MAX_EXECUTIONS_PER_NODE

\* C4 (as stated): on an acyclic document where no node errors, nodesExecuted
\* is the number of distinct nodes reachable from the start node.
C4_ReachableCount ==
  CleanAcyclicRun => response.nodesExecuted = Cardinality(Reachable)

\* C4 (amended): on an acyclic document where no node errors, nodesExecuted
\* is the number of edge paths from the start node: a node is executed once
\* for every path that leads to it, duplicate edges included.
C4_PathCount ==
  CleanAcyclicRun => response.nodesExecuted = PathCount(req.startNodeId, edges)

\* the diamond: three reachable nodes, four executions
C4_Witness ==
  /\ CleanAcyclicRun
  /\ Cardinality(Reachable) = 3
  /\ response.nodesExecuted = 4
  /\ CountOf("C", response.results) = 2

\* every node of the document runs on the backend a script that returns a
\* defined non-null value
ValueScripts ==
  \A id \in DOMAIN nodes :
    /\ executionModeOf(nodes[id]) = "server"
    /\ \A input \in {Undef, Null, Num(1)} :
         /\ ServerResult(nodes[id].code, input).error = Undef
         /\ Propagates(ServerResult(nodes[id].code, input).result)

\* C5: on the cycle A -> B -> A with scripts that return values, a run from A
\* ends with A and B executed exactly MAX_EXECUTIONS_PER_NODE times each,
\* nodesExecuted twice that number, and status success.
C5_TwoCycle ==
  /\ Answered
  /\ faults = 0
  /\ edges = <<Edge("A", "B"), Edge("B", "A")>>
  /\ req.startNodeId = "A"
  /\ ValueScripts
  => /\ CountOf("A", response.results) = MAX_EXECUTIONS_PER_NODE
     /\ CountOf("B", response.results) = MAX_EXECUTIONS_PER_NODE
     /\ response.nodesExecuted = 2 * MAX_EXECUTIONS_PER_NODE
     /\ response.success
     /\ \E i \in 1..Len(executionHistory) :
          /\ executionHistory[i].id = run.executionId
          /\ executionHistory[i].status = "success"

\* the run on the two-node cycle has ended, both nodes at the per-node cap
C5_Witness ==
  /\ Answered
  /\ edges = <<Edge("A", "B"), Edge("B", "A")>>
  /\ ValueScripts
  /\ run.executionCount["A"] = MAX_EXECUTIONS_PER_NODE
  /\ run.executionCount["B"] = MAX_EXECUTIONS_PER_NODE
  /\ response.nodesExecuted = 2 * MAX_EXECUTIONS_PER_NODE

\* the script of the node throws, and the backend runs it
Throws(id) ==
  /\ id \in DOMAIN nodes
  /\ executionModeOf(nodes[id]) = "server"
  /\ ~executeNodeCode(nodes[id].code, Undef).ok

\* C6: when a node's script throws, whatever it throws, the entry of that
\* invocation has error set and no result, the response has success = false,
\* the record has status error, and no child of the node is executed (a
\* throwing start node is the only entry).
C6_ThrowIsError ==
  Answered /\ faults = 0 =>
    /\ \A i \in 1..Len(response.results) :
         Throws(response.results[i].nodeId) =>
           /\ response.results[i].error # Undef
           /\ response.results[i].result = Undef
           /\ ~response.success
           /\ \E k \in 1..Len(executionHistory) :
                /\ executionHistory[k].id = run.executionId
                /\ executionHistory[k].status = "error"
    /\ Throws(req.startNodeId) => Len(response.results) = 1

\* C7: in every coordinator, a node whose result is undefined or null has
\* none of its children invoked from that invocation, and it does not set
\* the run's error flag: the flag is set only with an entry that has an error.
C7_NullishStops ==
  /\ Walking =>
       \A k \in 2..Len(stack) : Propagates(stack[k - 1].nodeResult.result)
  /\ run.hasError =>
       \E i \in 1..Len(run.results) : run.results[i].error # Undef

\* the top activation dispatched its node to the caller and the wait ran out
TimedOut ==
  /\ At("push")
  /\ executionModeOf(Top.node) = "client"
  /\ ~Top.clientCompleted

\* the node's state after a timeout
TimeoutState(data) ==
  /\ data.isExecuting = False
  /\ data.pendingClientExecution = False
  /\ data.error = Str(TimeoutMessage)

RefOutcome(id, input) ==
  IF executionModeOf(nodes[id]) = "client"
  THEN [result |-> Undef, error |-> Str(TimeoutMessage)]
  ELSE ServerResult(nodes[id].code, input)

\* the traversal of that run, depth first: todo holds the calls still to make
RECURSIVE RefWalk(_, _)
RefWalk(todo, st) ==
  IF todo = <<>>
  THEN st
  ELSE LET id == Head(todo).nodeId
           input == Head(todo).input
           rest == Tail(todo)
       IN IF \/ st.total >= MAX_TOTAL_EXECUTIONS
             \/ st.count[id] >= MAX_EXECUTIONS_PER_NODE
          THEN RefWalk(rest, st)
          ELSE LET counted == [st EXCEPT !.total = @ + 1, !.count[id] = @ + 1]
               IN IF id \notin DOMAIN nodes
                  THEN RefWalk(rest, counted)
                  ELSE LET r == RefOutcome(id, input)
                           entry == [nodeId |-> id,
                                     nodeLabel |-> nodes[id].label,
                                     result |-> r.result, error |-> r.error]
                           pushed == [counted EXCEPT
                                        !.results = Append(@, entry),
                                        !.hasError = @ \/ Truthy(r.error)]
                           targets == childrenOf(id, edges)
                           calls == [i \in 1..Len(targets) |->
                                       [nodeId |-> targets[i],
                                        input |-> r.result]]
                       IN IF Truthy(r.error) \/ ~Propagates(r.result)
                          THEN RefWalk(rest, pushed)
                          ELSE RefWalk(calls \o rest, pushed)

RefResponse ==
  LET st == RefWalk(<<[nodeId |-> req.startNodeId, input |-> Undef]>>,
                    [results |-> <<>>, hasError |-> FALSE, total |-> 0,
                     count |-> [n \in AllIds |-> 0]])
  IN [status |-> "200", success |-> ~st.hasError,
      nodesExecuted |-> Len(st.results), results |-> st.results]

\* C9: whichever store mutations fail, the run's response (success,
\* nodesExecuted, results) is the response of the same run with every
\* mutation successful, for backend-mode and for caller-mode nodes.
C9_SameResponse ==
  Answered /\ ~env.browser => response = RefResponse

\* the request names no room or no start node, or a room or a start node
\* that does not exist
InvalidRequest ==
  \/ req.roomId = ""
  \/ req.startNodeId = ""
  \/ req.roomId # "room"
  \/ req.startNodeId \notin DOMAIN nodes

\* C10: an invalid request is answered with 400 or 404 and the run never
\* starts: no record is inserted, no node is changed, no script is executed.
C10_RejectedEarly ==
  Done /\ Endpoint /\ InvalidRequest /\ faults = 0 =>
    /\ response.status \in {"400", "404"}
    /\ executionHistory = <<>>
    /\ nodes = DefaultNodes
    /\ run.results = <<>>

\* (the reference run is the run itself when no store call fails)
RefIsFaultFree ==
  Answered /\ ~env.browser /\ faults = 0 => response = RefResponse

----------------------------------------------------------------------------
(* Properties of the execution history *)

\* by how many places a step moves the records of the history: by one when
\* a begin reaches the store
Shift ==
  IF /\ phase \in {"begin", "received"}
     /\ phase' = "walk"
     /\ executionHistory' # executionHistory
  THEN 1
  ELSE 0

Terminal == {"success", "error"}

\* C11: the status of a record is running from begin until finalization, and
\* once it is success or error no later write changes it, under every
\* interleaving of two runs in the room.
C11_StatusMonotonic ==
  [][\A i \in 1..Len(executionHistory) :
       i + Shift <= Len(executionHistory') =>
         /\ executionHistory'[i + Shift].status \in Terminal \cup {"running"}
         /\ executionHistory[i].status \in Terminal =>
              executionHistory'[i + Shift].status
                = executionHistory[i].status]_vars

\* C12: any two records of the history have different ids, also when two
\* runs read the same clock value.
C12_UniqueIds ==
  \A i, j \in 1..Len(executionHistory) :
    i # j => executionHistory[i].id # executionHistory[j].id

\* s is an initial part of t
IsPrefix(s, t) == Len(s) <= Len(t) /\ s = SubSeq(t, 1, Len(s))

\* C13: across the successive stored states of a record, results only grows
\* by appending, and the stored nodesExecuted is the length of the stored
\* results, also when advance mutations are lost and two runs write to the
\* history.
C13_AppendOnly ==
  /\ [](\A i \in 1..Len(executionHistory) :
          executionHistory[i].nodesExecuted
            = Len(executionHistory[i].results))
  /\ [][\A i \in 1..Len(executionHistory) :
          i + Shift <= Len(executionHistory') =>
            IsPrefix(executionHistory[i].results,
                     executionHistory'[i + Shift].results)]_vars

\* C14: after a begin of a flow endpoint that reached the store, whatever
\* the length of the list before, the new record is at index 0, the list has
\* at most 50 entries, and the entries after it are the previous entries from
\* the head on, in their previous order: only the oldest are dropped.
C14_BeginAtHead ==
  [][/\ Endpoint
     /\ phase = "begin" /\ phase' = "walk"
     /\ parked' = parked /\ faults' = faults
     =>
       /\ Len(executionHistory') >= 1
       /\ executionHistory'[1].id = run.executionId
       /\ executionHistory'[1].status = "running"
       /\ Len(executionHistory') <= HistoryCap
       /\ Len(executionHistory') >= Len(executionHistory)
            \/ Len(executionHistory') = HistoryCap
       /\ Tail(executionHistory')
            = SubSeq(executionHistory, 1, Len(executionHistory') - 1)]_vars

\* a begin found the list at the cap: the new record leads, the record that
\* was the newest follows, and the oldest is gone
C14_Witness ==
  /\ Endpoint
  /\ At("enter")
  /\ Len(executionHistory) = HistoryCap
  /\ executionHistory[1].id = run.executionId
  /\ executionHistory[2] = OldRecord(HistoryCap)
  /\ executionHistory[HistoryCap] = OldRecord(2)

\* C15: in every reachable state the history holds at most 50 records,
\* whichever recorder inserted them.
C15_HistoryCapped ==
  Len(executionHistory) <= HistoryCap

\* C16: no engine operation removes a record from the history, and the
\* finalization of every run that ends with all its store calls successful
\* finds its record.
C16_NeverRemoved ==
  /\ [](Answered /\ faults = 0 => RecordFinal)
  /\ [][\A i \in 1..Len(executionHistory) :
          \E j \in 1..Len(executionHistory') :
            executionHistory'[j].id = executionHistory[i].id]_vars

\* the other request's innermost activation waits for the caller on node id
ParkedPolls(id) ==
  /\ parked.phase = "walk"
  /\ parked.stack # <<>>
  /\ parked.stack[Len(parked.stack)].pc = "poll"
  /\ parked.stack[Len(parked.stack)].nodeId = id

\* C17: at any time at most one caller-mode dispatch is outstanding for a
\* node: no two runs have both written the pending marker of the same node
\* and are both still polling for it.
C17_OneDispatch ==
  At("poll") => ~ParkedPolls(Top.nodeId)

----------------------------------------------------------------------------
(* Properties of the node fields *)

\* C18: in every state of a node, clientInput is present only while
\* pendingClientExecution is true; in particular after the dispatcher's
\* timeout write the node has no clientInput.
C18_InputOnlyWhilePending ==
  \A id \in DOMAIN nodes :
    nodes[id].clientInput # Undef =>
      nodes[id].pendingClientExecution = True

\* C19: in the flow endpoints, the script of a node whose executionMode is
\* client is never evaluated by the backend: its activation never reaches
\* the call of executeNodeCode.
C19_CallerScriptNotRun ==
  Endpoint /\ Walking /\ Top.node.executionMode = "client" =>
    Top.pc \notin {"run", "write"}

\* C20: after a backend-mode dispatch whose store mutations succeeded, the
\* node has isExecuting = false, and its lastResult and error are the result
\* and the error of the dispatch's outcome: nothing of an earlier execution
\* is kept.
C20_StoredOutcome ==
  /\ Endpoint
  /\ At("push")
  /\ executionModeOf(Top.node) = "server"
  /\ faults = 0
  => /\ nodes[Top.nodeId].isExecuting = False
     /\ nodes[Top.nodeId].lastResult = Top.nodeResult.result
     /\ nodes[Top.nodeId].error = Top.nodeResult.error

----------------------------------------------------------------------------
(* Properties of a run on a document that collaborators edit *)

\* a step of the engine: the handler or the caller-side traversal advances
EngineStep == stack' # stack \/ phase' # phase \/ run' # run

\* C21: no step of the engine changes a node's code, label or execution
\* location, the set of nodes, or the edge list: a node update touches only
\* the result fields, and an update of a node that no longer exists leaves
\* the node map unchanged.
C21_FrameEffect ==
  [][EngineStep =>
       /\ edges' = edges
       /\ DOMAIN nodes' = DOMAIN nodes
       /\ \A id \in DOMAIN nodes :
            /\ nodes'[id].code = nodes[id].code
            /\ nodes'[id].label = nodes[id].label
            /\ nodes'[id].executionMode = nodes[id].executionMode]_vars

\* the start node's result was stored, and the visit of its child came to
\* its end after a collaborator had deleted the child
C21_Witness ==
  /\ Endpoint
  /\ Len(stack) = 2
  /\ At("push")
  /\ Top.nodeId \notin DOMAIN nodes
  /\ nodes[StartId].lastResult = Num(1)
  /\ nodes[StartId].code = DefaultCode

\* the input the claim expects for the k-th activation on the stack
ExpectedInput(k) ==
  IF k = 1 THEN Undef ELSE stack[k - 1].nodeResult.result

\* the k-th activation has dispatched its node to the caller, and the marker
\* it wrote is still on the node
Dispatched(k) ==
  /\ stack[k].pc = "poll"
  /\ faults = 0
  /\ stack[k].nodeId \in DOMAIN nodes
  /\ Truthy(nodes[stack[k].nodeId].pendingClientExecution)

\* every activation holds the input expected for it; the parent's entry in
\* results holds the same value; the backend hands it to the script
InputsFollowResults ==
  /\ [](Endpoint /\ Walking =>
          \A k \in 1..Len(stack) :
            /\ stack[k].input = ExpectedInput(k)
            /\ k > 1 =>
                 \E i \in 1..Len(run.results) :
                   /\ run.results[i].nodeId = stack[k - 1].nodeId
                   /\ run.results[i].result = stack[k].input)
  /\ [][Endpoint /\ At("run") /\ stack' # stack =>
          Top'.nodeResult =
            ServerResult(Top.node.code, ExpectedInput(Len(stack)))]_vars

----------------------------------------------------------------------------
(* Properties of the traversal's branches *)

\* no cap was reached in the run
Uncapped ==
  /\ run.totalExecutions < MAX_TOTAL_EXECUTIONS
  /\ \A id \in AllIds : run.executionCount[id] < MAX_EXECUTIONS_PER_NODE

\* the children of the i-th entry's node that exist, in edge order
ExistingChildren(i) ==
  SelectSeq(childrenOf(run.results[i].nodeId, edges),
            LAMBDA c : c \in DOMAIN nodes)

\* every existing child of the i-th entry's node has an entry after the
\* i-th, and two children have their entries in edge order
ChildrenVisited(i) ==
  LET kids == ExistingChildren(i)
      after(j, id) == /\ j \in 1..Len(run.results)
                      /\ j > i
                      /\ run.results[j].nodeId = id
  IN /\ \A k \in 1..Len(kids) :
          \E j \in 1..Len(run.results) : after(j, kids[k])
     /\ \A k1, k2 \in 1..Len(kids) :
          k1 < k2 =>
            \E j1, j2 \in 1..Len(run.results) :
              /\ j1 < j2
              /\ after(j1, kids[k1])
              /\ after(j2, kids[k2])

\* the invocation of the i-th entry ended without an error, with a result
\* that is handed on
HandsOn(i) ==
  /\ run.results[i].error = Undef
  /\ Propagates(run.results[i].result)

\* an error ends one invocation only: the children of every invocation that
\* handed its result on are all visited, whatever their siblings yielded
SiblingsVisited ==
  Answered /\ Uncapped =>
    \A i \in 1..Len(run.results) : HandsOn(i) => ChildrenVisited(i)

\* C23: an invocation that yields an error cuts only its own subtree: the
\* remaining siblings of the failing node, and of its ancestors, are still
\* visited in edge order, and the run ends with status error.
C23_ErrorCutsSubtree ==
  /\ SiblingsVisited
  /\ Answered =>
       \A i \in 1..Len(run.results) :
         run.results[i].error # Undef =>
           /\ ~response.success
           /\ faults = 0 => executionHistory[1].status = "error"

\* C24: a visit whose target is not in the snapshot it fetched (a dangling
\* edge, or a node a collaborator deleted during the run) is dropped
\* silently: no entry is appended, the error flag is not set, no node is
\* changed, and the remaining siblings are still visited.
C24_MissingDropped ==
  /\ [][Endpoint /\ At("fetch") /\ Top.nodeId \notin DOMAIN nodes
        /\ stack' # stack
        => /\ stack' = Pop
           /\ phase' = phase
           /\ run' = run
           /\ nodes' = nodes]_vars
  /\ [](Answered /\ Uncapped =>
          \A i \in 1..Len(run.results) : HandsOn(i) => ChildrenVisited(i))
  /\ [](Endpoint /\ Walking =>
          \A k \in 1..(Len(stack) - 1) :
            /\ stack[k].idx - 1 \in 1..Len(stack[k].children)
            /\ stack[k + 1].nodeId = stack[k].children[stack[k].idx - 1])

\* the start node's children were B and C; a collaborator deleted B before
\* its visit fetched it: the run has entries for A and C only, and no error
C24_Witness ==
  /\ Endpoint
  /\ Len(stack) = 1
  /\ At("children")
  /\ Top.children = <<"B", "C">>
  /\ Top.idx = 3
  /\ "B" \notin DOMAIN nodes
  /\ Len(run.results) = 2
  /\ run.results[1].nodeId = "A"
  /\ run.results[2].nodeId = "C"
  /\ ~run.hasError
  /\ run.executionCount["B"] = 1

----------------------------------------------------------------------------
(* Properties of the wait for the caller *)

\* C25: the poll of a caller-mode dispatch reads the document at most 120
\* times and waits one interval before each read; it returns at the first
\* read in which the node exists with the pending marker cleared, and
\* otherwise times out after the last read, also when the node disappears
\* during the polling.
C25_PollProtocol ==
  /\ [](Endpoint /\ At("poll") =>
          /\ Top.waitedTime % pollInterval = 0
          /\ Top.waitedTime \div pollInterval < 120)
  /\ [][Endpoint /\ At("poll") /\ stack' # stack /\ phase' = phase =>
          LET id == Top.nodeId
              reads == (Top.waitedTime \div pollInterval) + 1
              cleared == /\ id \in DOMAIN nodes
                         /\ ~Truthy(nodes[id].pendingClientExecution)
          IN /\ Len(stack') = Len(stack)
             /\ IF cleared
                THEN /\ Top'.pc = "push"
                     /\ Top'.clientCompleted
                     /\ Top'.nodeResult = [result |-> nodes[id].lastResult,
                                           error |-> nodes[id].error]
                ELSE IF reads < 120
                THEN /\ Top'.pc = "poll"
                     /\ Top'.waitedTime = reads * pollInterval
                     /\ ~Top'.clientCompleted
                ELSE /\ Top'.pc = "timeout"
                     /\ ~Top'.clientCompleted
                     /\ Top'.nodeResult =
                          [result |-> Undef,
                           error |-> Str(TimeoutMessage)]]_vars

\* a browser is in the room, but the dispatched node was deleted: the poll
\* has made its last read and the dispatch times out
C25_Witness ==
  /\ Endpoint
  /\ At("timeout")
  /\ env.browser
  /\ Top.nodeId \notin DOMAIN nodes
  /\ ~Top.clientCompleted
  /\ Top.nodeResult.error = Str(TimeoutMessage)

----------------------------------------------------------------------------
(* Properties of the snapshot of a visit *)

\* the same activation is on top of the stack before and after the step
SameVisit ==
  /\ Endpoint
  /\ Walking
  /\ stack' # stack
  /\ phase' = phase
  /\ Len(stack') = Len(stack)

\* the targets of the edges of es that leave node id, in the order of es
TargetsIn(es, id) ==
  LET out == SelectSeq(es, LAMBDA e : e.source = id)
  IN [i \in 1..Len(out) |-> out[i].target]

\* C26: a visit takes the node's code, its execution location and its
\* children from the snapshot it fetches after its counters were incremented:
\* an edit of the code or of the edges committed before the visit is honoured
\* by it, and an edit committed while the node executes changes neither the
\* script the backend runs nor the children visited after it.
C26_VisitSnapshot ==
  /\ [][SameVisit /\ Top.pc = "fetch" =>
          /\ run.executionCount[Top.nodeId] >= 1
          /\ Top'.node = nodes[Top.nodeId]
          /\ Top'.snapEdges = edges]_vars
  /\ [][SameVisit /\ Top.pc \notin {"enter", "fetch"} =>
          /\ Top'.node = Top.node
          /\ Top.pc # "advance" /\ Top.pc # "children" =>
               Top'.snapEdges = Top.snapEdges]_vars
  /\ [][SameVisit /\ Top.pc = "mark" =>
          Top'.pc = IF coord = "server" /\ Top.node.executionMode = "client"
                    THEN "poll" ELSE "run"]_vars
  /\ [][SameVisit /\ Top.pc = "run" =>
          Top'.nodeResult = ServerResult(Top.node.code, Top.input)]_vars
  /\ [][SameVisit /\ Top.pc = "advance" =>
          Top'.children = IF Propagates(Top.nodeResult.result)
                          THEN TargetsIn(Top.snapEdges, Top.nodeId)
                          ELSE <<>>]_vars

\* the collaborator saved B's script before B's visit fetched it, and the
\* visit runs the saved script; the edge to B is gone from the document, yet
\* B is the child that the start node's visit is at
C26_Witness ==
  /\ Endpoint
  /\ Len(stack) = 2
  /\ stack[1].children = <<"B">>
  /\ At("run")
  /\ Top.nodeId = "B"
  /\ Top.node.code = SavedCode
  /\ edges = <<>>
  /\ "B" \in DOMAIN nodes

----------------------------------------------------------------------------
(* The caller-side traversal against the traversal of the endpoints *)

\* the traversal of executeNodeAndChildren with the per-node cap perNode,
\* every node on the backend, every store call successful: todo holds the
\* calls still to make
RECURSIVE CanonWalk(_, _, _)
CanonWalk(todo, st, perNode) ==
  IF todo = <<>>
  THEN st
  ELSE LET id == Head(todo).nodeId
           input == Head(todo).input
           rest == Tail(todo)
       IN IF \/ st.total >= MAX_TOTAL_EXECUTIONS
             \/ st.count[id] >= perNode
          THEN CanonWalk(rest, st, perNode)
          ELSE LET counted == [st EXCEPT !.total = @ + 1, !.count[id] = @ + 1]
               IN IF id \notin DOMAIN nodes
                  THEN CanonWalk(rest, counted, perNode)
                  ELSE LET r == ServerResult(nodes[id].code, input)
                           entry == [nodeId |-> id,
                                     nodeLabel |-> nodes[id].label,
                                     result |-> r.result, error |-> r.error]
                           pushed == [counted EXCEPT
                                        !.results = Append(@, entry),
                                        !.hasError = @ \/ Truthy(r.error)]
                           calls == [i \in 1..Len(TargetsIn(edges, id)) |->
                                       [nodeId |-> TargetsIn(edges, id)[i],
                                        input |-> r.result]]
                       IN IF Truthy(r.error) \/ ~Propagates(r.result)
                          THEN CanonWalk(rest, pushed, perNode)
                          ELSE CanonWalk(calls \o rest, pushed, perNode)

\* the canonical traversal in which every node runs at most once
CanonOnce ==
  CanonWalk(<<[nodeId |-> req.startNodeId, input |-> Undef]>>,
            [results |-> <<>>, hasError |-> FALSE, total |-> 0,
             count |-> [n \in AllIds |-> 0]],
            1)

\* the caller-side executeFlow returned
CallerReturned ==
  coord = "caller" /\ Done /\ response.status = "returned"

\* C27: the caller-side visited-once traversal returns the same sequence of
\* entries and the same success flag as the canonical traversal with a
\* per-node cap of 1, on every graph and for every assignment of script
\* outcomes (value, null, undefined, error).
C27_CallerRefinesCanonical ==
  CallerReturned =>
    /\ response.results = CanonOnce.results
    /\ response.success = ~CanonOnce.hasError

----------------------------------------------------------------------------
(* Properties of the outcome of a caller-mode dispatch *)

\* C28: a caller-mode dispatch that returns without timing out returns the
\* result and error that a collaborator wrote in response to this dispatch's
\* own marker and clientInput, also when marker writes are lost: never a
\* lastResult that was in the document before.
C28_AnsweredByCaller ==
  Endpoint /\ At("push") /\ Top.clientCompleted =>
    /\ env.browser
    /\ Top.nodeResult =
         ServerResult(Top.node.code, ClientInput(Top.input))

----------------------------------------------------------------------------
(* Properties of the run's counters *)

\* no visit is under way in the innermost activation: it is about to begin,
\* or its node's children are being looped over, or the traversal is over
BetweenVisits ==
  \/ At("enter")
  \/ At("children")
  \/ phase = "respond"
  \/ Answered

\* C29: between node visits, totalExecutions equals the number of entries in
\* results, and each node's counter equals the number of entries of that
\* node id.
C29_CountersMatchEntries ==
  Endpoint /\ BetweenVisits =>
    /\ run.totalExecutions = Len(run.results)
    /\ \A id \in AllIds :
         run.executionCount[id] = CountOf(id, run.results)

----------------------------------------------------------------------------
(* Properties of the executing flag *)

\* the run is the caller-side executeFlow, or a run of a flow endpoint in
\* which every node is dispatched on the backend
BackendOrCallerSide ==
  \/ coord = "caller"
  \/ /\ Endpoint
     /\ \A id \in DOMAIN nodes : executionModeOf(nodes[id]) = "server"

\* C30: every node that a run marks isExecuting = true is written back to
\* isExecuting = false before the run ends, whatever the outcome of its
\* script (return, throw, a return that cannot be serialized), in the
\* caller-side executeFlow and in the backend-mode dispatch, when every
\* store mutation succeeds.
C30_ExecutingCleared ==
  Done /\ BackendOrCallerSide /\ faults = 0 =>
    \A id \in DOMAIN nodes : nodes[id].isExecuting # True

====
